---------------------------- MODULE Spec2Model ----------------------------
(***************************************************************************)
(* A model of the graph-analytics core of the Enron centrality project:    *)
(* cluster.rs (find_clusters, kmeans) and graph.rs (compute_degree,        *)
(* compute_closeness, compute_betweenness), all of "Konstantinos Ilias     *)
(* Final Project DS210".                                                   *)
(*                                                                         *)
(* Each function is a small state machine of its own, with its own         *)
(* specification (SpecKMeans, SpecKMeansTest, SpecClusters, SpecDegree,    *)
(* SpecCloseness, SpecBetweenness, SpecNormalize).  The variables of the   *)
(* functions a specification does not run stay at their idle values.       *)
(*                                                                         *)
(* Numbers.  Node ids and counters are naturals.  An f64 feature value is  *)
(* modelled by an exact rational: a feature vector is a triple of integers *)
(* in units of 1/20 (so 0.1 is 2 and 0.95 is 19), a centroid is            *)
(* <<nx, ny, nz, den>> standing for (nx/den, ny/den, nz/den), a closeness  *)
(* score is <<num, den>>.  Rounding of f64 arithmetic is not modelled.     *)
(***************************************************************************)
EXTENDS Integers, Sequences, FiniteSets, TLC

VARIABLES
    \* ---- kmeans (cluster.rs:57-112) ----
    features,      \* the input map node -> (degree, closeness, betweenness)
    k,             \* the requested number of clusters
    max_iters,     \* the iteration budget
    centroids,     \* Vec<Features>, 1-based here: centroids[i+1] is the code's centroids[i]
    assignments,   \* HashMap<usize, usize>: node -> 0-based cluster index
    iter,          \* iterations of the for loop completed
    kpc,           \* position in kmeans: idle | init | loop | update | done | panic
    \* ---- find_clusters (cluster.rs:9-44) ----
    fedges,        \* the input edge list
    fgraph,        \* HashMap<usize, Vec<usize>>: adjacency lists
    fkeys,         \* keys of graph.keys() not yet yielded by the iterator
    visited,       \* HashSet of visited nodes
    clusters,      \* Vec<HashSet<usize>>: the components found so far
    cluster,       \* the component under construction
    queue,         \* the BFS queue
    fpc,           \* idle | build | outer | bfs | done
    \* ---- compute_degree (graph.rs:52-59) ----
    dedges,        \* the input edge list
    degrees,       \* HashMap<usize, usize>
    di,            \* edges consumed so far
    dpc,           \* idle | loop | done
    \* ---- compute_closeness (graph.rs:64-101) ----
    cedges,        \* the input edge list
    cnodes,        \* the subset S
    cgraph,        \* adjacency lists
    cleft,         \* sources of S not yet yielded by the iterator
    closeness,     \* HashMap<usize, f64>: node -> <<num, den>>
    divisions,     \* the divisors of every division performed so far
    cpc,           \* idle | build | loop | done
    \* ---- compute_betweenness (graph.rs:106-170) ----
    bedges,        \* the input edge list
    bnodes,        \* the subset S
    bgraph,        \* adjacency lists
    bleft,         \* sources of S not yet yielded by the iterator
    centrality,    \* HashMap<usize, f64>: node -> <<num, den>>
    bstack,        \* the stack of the source processed last, in push order
    bsigma,        \* the sigma map of the source processed last, at the end of its BFS
    bdivisors,     \* the sigma values the dependency coefficients were divided by so far
    bpc,           \* idle | build | loop | done | panic
    \* ---- normalize_features (cluster.rs:121-138) ----
    ninput,        \* the feature map as it was passed in
    nfeatures,     \* the feature map, changed in place: node -> triple of <<num, den>>
    nscan,         \* nodes the first loop has not yet yielded
    nmax,          \* <<max_d, max_c, max_b>>
    nscale,        \* nodes the second loop has not yet yielded
    npc            \* idle | scan | scale | done

kmVars == <<features, k, max_iters, centroids, assignments, iter, kpc>>
fcVars == <<fedges, fgraph, fkeys, visited, clusters, cluster, queue, fpc>>
dgVars == <<dedges, degrees, di, dpc>>
clVars == <<cedges, cnodes, cgraph, cleft, closeness, divisions, cpc>>
bwVars == <<bedges, bnodes, bgraph, bleft, centrality, bstack, bsigma, bdivisors, bpc>>
nfVars == <<ninput, nfeatures, nscan, nmax, nscale, npc>>
vars == <<kmVars, fcVars, dgVars, clVars, bwVars, nfVars>>

----------------------------------------------------------------------------
(* Helpers of the model. *)

\* The empty map (a HashMap::new()).
EmptyMap == <<>>

\* The sequences of m distinct elements of S.
Injections(m, S) == {s \in [1..m -> S] : \A i, j \in 1..m : i # j => s[i] # s[j]}

Min(a, b) == IF a < b THEN a ELSE b

RECURSIVE Gcd(_, _)
Gcd(a, b) == IF b = 0 THEN a ELSE Gcd(b, a % b)

Abs(x) == IF x < 0 THEN -x ELSE x

\* All sequences over S of length at most n.
SeqsUpTo(S, n) == UNION {[1..m -> S] : m \in 0..n}

----------------------------------------------------------------------------
(* Idle values: the state of a function a specification does not run. *)

KMIdle ==
    /\ features = EmptyMap /\ k = 0 /\ max_iters = 0 /\ centroids = <<>>
    /\ assignments = EmptyMap /\ iter = 0 /\ kpc = "idle"

FCIdle ==
    /\ fedges = <<>> /\ fgraph = EmptyMap /\ fkeys = {} /\ visited = {}
    /\ clusters = <<>> /\ cluster = {} /\ queue = <<>> /\ fpc = "idle"

DGIdle == dedges = <<>> /\ degrees = EmptyMap /\ di = 0 /\ dpc = "idle"

CLIdle ==
    /\ cedges = <<>> /\ cnodes = {} /\ cgraph = EmptyMap /\ cleft = {}
    /\ closeness = EmptyMap /\ divisions = {} /\ cpc = "idle"

BWIdle ==
    /\ bedges = <<>> /\ bnodes = {} /\ bgraph = EmptyMap /\ bleft = {}
    /\ centrality = EmptyMap /\ bstack = <<>> /\ bsigma = EmptyMap
    /\ bdivisors = {} /\ bpc = "idle"

NFIdle ==
    /\ ninput = EmptyMap /\ nfeatures = EmptyMap /\ nscan = {}
    /\ nmax = <<0, 0, 0>> /\ nscale = {} /\ npc = "idle"

----------------------------------------------------------------------------
(* kmeans, cluster.rs:57-112 *)

\* Bounds of the kmeans inputs.
MaxKNodes == 3
MaxIters == 2

\* The feature vectors the inputs are drawn from, in units of 1/20: the four
\* vectors of tests::test_kmeans, (0,0,0), (0.1,0,0.1), (0.9,1,0.95), (1,1,1).
FeatureValues == {<<0, 0, 0>>, <<2, 0, 2>>, <<18, 20, 19>>, <<20, 20, 20>>}

\* The feature map of tests::test_kmeans and the arguments of its call.
TestFeatures == (1 :> <<0, 0, 0>>) @@ (2 :> <<2, 0, 2>>) @@ (3 :> <<18, 20, 19>>) @@ (4 :> <<20, 20, 20>>)
TestK == 2
TestMaxIters == 100

\* A feature vector read as a centroid: the value itself, denominator 1.
AsCentroid(f) == <<f[1], f[2], f[3], 1>>

\* A centroid in lowest terms, so that equal centroids are equal values.
Reduce(c) ==
    LET g == Gcd(Gcd(Gcd(Abs(c[1]), Abs(c[2])), Abs(c[3])), c[4])
    IN  <<c[1] \div g, c[2] \div g, c[3] \div g, c[4] \div g>>

\* euclidean_distance(a, b): sqrt(dx*dx + dy*dy + dz*dz).  The model keeps the
\* radicand as the rational <<num, den>>; sqrt is increasing, so the order of
\* two distances is the order of their radicands.
euclidean_distance(a, b) ==
    LET dx == a[1] * b[4] - b[1]
        dy == a[2] * b[4] - b[2]
        dz == a[3] * b[4] - b[3]
    IN  <<dx * dx + dy * dy + dz * dz, b[4] * b[4]>>

\* dist < best_dist on two distances.
DistLess(d1, d2) == d1[1] * d2[2] < d2[1] * d1[2]

\* Mutant of NearestFrom: a centroid at the same distance as the best so far
\* replaces it (`<=` for `<`).
RECURSIVE NearestFromLastTie(_, _, _, _)
NearestFromLastTie(feat, cents, i, best) ==
    IF i >= Len(cents) THEN best
    ELSE IF ~DistLess(euclidean_distance(feat, cents[best + 1]),
                      euclidean_distance(feat, cents[i + 1]))
         THEN NearestFromLastTie(feat, cents, i + 1, i)
         ELSE NearestFromLastTie(feat, cents, i + 1, best)

\* The inner loop of the assignment step from index i (0-based) on, with the
\* best index so far: `if dist < best_dist { best = i; best_dist = dist; }`.
RECURSIVE NearestFrom(_, _, _, _)
NearestFrom(feat, cents, i, best) ==
    IF i >= Len(cents) THEN best
    ELSE IF DistLess(euclidean_distance(feat, cents[i + 1]),
                     euclidean_distance(feat, cents[best + 1]))
         THEN NearestFrom(feat, cents, i + 1, i)
         ELSE NearestFrom(feat, cents, i + 1, best)

\* Mutant of Nearest: the index counted from 1, as a 1-based position.
NearestOneBased(feat, cents) == NearestFrom(feat, cents, 1, 0) + 1

\* best = 0, best_dist = distance to centroids[0], then the centroids 1.. in order.
Nearest(feat, cents) == NearestFrom(feat, cents, 1, 0)

\* The nodes currently assigned to cluster i (0-based).
Members(assign, i) == {n \in DOMAIN assign : assign[n] = i}

\* sums[i].j: the sum of coordinate j of the features of the nodes of S.
RECURSIVE SumFeat(_, _, _)
SumFeat(S, feats, j) ==
    IF S = {} THEN 0
    ELSE LET n == CHOOSE x \in S : TRUE
         IN  feats[n][j] + SumFeat(S \ {n}, feats, j)

\* Mutant of NewCentroid: the centroid is never recomputed.
NewCentroidStale(i, cents, assign, feats) == cents[i + 1]

\* Mutant of NewCentroid: a centroid without members is reset to the origin.
NewCentroidResetEmpty(i, cents, assign, feats) ==
    LET m == Members(assign, i)
    IN  IF Cardinality(m) > 0
        THEN Reduce(<<SumFeat(m, feats, 1), SumFeat(m, feats, 2),
                      SumFeat(m, feats, 3), Cardinality(m)>>)
        ELSE <<0, 0, 0, 1>>

\* Mutant of NewCentroid: the centroid as it was is averaged in with its members.
NewCentroidBlend(i, cents, assign, feats) ==
    LET m == Members(assign, i)
        c == cents[i + 1]
    IN  IF Cardinality(m) > 0
        THEN Reduce(<<SumFeat(m, feats, 1) * c[4] + c[1],
                      SumFeat(m, feats, 2) * c[4] + c[2],
                      SumFeat(m, feats, 3) * c[4] + c[3],
                      (Cardinality(m) + 1) * c[4]>>)
        ELSE c

\* The update of centroid i (0-based): the mean of its members when
\* counts[i] > 0, else the centroid as it was.
NewCentroid(i, cents, assign, feats) ==
    LET m == Members(assign, i)
    IN  IF Cardinality(m) > 0
        THEN Reduce(<<SumFeat(m, feats, 1), SumFeat(m, feats, 2),
                      SumFeat(m, feats, 3), Cardinality(m)>>)
        ELSE cents[i + 1]

\* Mutant of ChooseMultiple: sampling with replacement.
ChooseMultipleWithReplacement(ids, amount) == [1..Min(amount, Cardinality(ids)) -> ids]

\* node_ids.choose_multiple(&mut rng, k): min(k, len) distinct nodes, in
\* random order.
ChooseMultiple(ids, amount) == Injections(Min(amount, Cardinality(ids)), ids)

\* cluster.rs:62-71: the initial centroids are the features of the chosen nodes.
ChooseCentroids ==
    /\ kpc = "init"
    /\ \E choice \in ChooseMultiple(DOMAIN features, k) :
          centroids' = [i \in 1..Len(choice) |-> AsCentroid(features[choice[i]])]
    /\ assignments' = EmptyMap
    /\ kpc' = "loop"
    /\ UNCHANGED <<features, k, max_iters, iter>>
    /\ UNCHANGED <<fcVars, dgVars, clVars, bwVars, nfVars>>

\* cluster.rs:75-86: the assignment step.  centroids[0] is read for the first
\* node, an index out of bounds when there is no centroid.
AssignStep ==
    /\ kpc = "loop"
    /\ iter < max_iters
    /\ IF DOMAIN features # {} /\ Len(centroids) = 0
       THEN /\ kpc' = "panic"
            /\ UNCHANGED assignments
       ELSE /\ assignments' =
                 [n \in DOMAIN assignments \cup DOMAIN features |->
                     IF n \in DOMAIN features
                     THEN Nearest(features[n], centroids)
                     ELSE assignments[n]]
            /\ kpc' = "update"
    /\ UNCHANGED <<features, k, max_iters, centroids, iter>>
    /\ UNCHANGED <<fcVars, dgVars, clVars, bwVars, nfVars>>

\* cluster.rs:88-108: the update step.  counts and sums have k entries,
\* centroids has the entries that were chosen.
UpdateStep ==
    /\ kpc = "update"
    /\ IF \/ \E n \in DOMAIN assignments : assignments[n] >= k
          \/ \E i \in 0..(k - 1) :
                Cardinality(Members(assignments, i)) > 0 /\ i >= Len(centroids)
       THEN /\ kpc' = "panic"
            /\ UNCHANGED <<centroids, iter>>
       ELSE /\ centroids' =
                 [i \in 1..Len(centroids) |->
                     IF i - 1 < k
                     THEN NewCentroid(i - 1, centroids, assignments, features)
                     ELSE centroids[i]]
            /\ iter' = iter + 1
            /\ kpc' = "loop"
    /\ UNCHANGED <<features, k, max_iters, assignments>>
    /\ UNCHANGED <<fcVars, dgVars, clVars, bwVars, nfVars>>

\* Mutant of KMeansReturn: the loop is also left once an iteration has run and
\* the next assignment step would change nothing.
KMeansReturnOnConvergence ==
    /\ kpc = "loop"
    /\ \/ iter = max_iters
       \/ /\ iter >= 1
          /\ Len(centroids) >= 1
          /\ \A n \in DOMAIN features :
                n \in DOMAIN assignments
                    /\ assignments[n] = Nearest(features[n], centroids)
    /\ kpc' = "done"
    /\ UNCHANGED <<features, k, max_iters, centroids, assignments, iter>>
    /\ UNCHANGED <<fcVars, dgVars, clVars, bwVars, nfVars>>

\* cluster.rs:73, 111: the budget is used up, assignments is returned.
KMeansReturn ==
    /\ kpc = "loop"
    /\ iter = max_iters
    /\ kpc' = "done"
    /\ UNCHANGED <<features, k, max_iters, centroids, assignments, iter>>
    /\ UNCHANGED <<fcVars, dgVars, clVars, bwVars, nfVars>>

KMeansStart ==
    /\ centroids = <<>> /\ assignments = EmptyMap /\ iter = 0 /\ kpc = "init"
    /\ FCIdle /\ DGIdle /\ CLIdle /\ BWIdle /\ NFIdle

InitKMeans ==
    /\ \E n \in 0..MaxKNodes : features \in [1..n -> FeatureValues]
    /\ k \in 0..(MaxKNodes + 1)
    /\ max_iters \in 0..MaxIters
    /\ KMeansStart

InitKMeansTest ==
    /\ features = TestFeatures
    /\ k = TestK
    /\ max_iters = TestMaxIters
    /\ KMeansStart

NextKMeans ==
    \/ ChooseCentroids
    \/ AssignStep
    \/ UpdateStep
    \/ KMeansReturn

SpecKMeans == InitKMeans /\ [][NextKMeans]_vars

SpecKMeansTest == InitKMeansTest /\ [][NextKMeans]_vars

----------------------------------------------------------------------------
(* Properties of kmeans *)

NodeCount == Cardinality(DOMAIN features)

\* The call is valid in the sense of the contract: 1 <= k <= number of nodes.
ValidK == 1 <= k /\ k <= NodeCount

\* The returned assignment has one entry per input node, each in [0, k).
WellFormedAssignment ==
    /\ DOMAIN assignments = DOMAIN features
    /\ \A n \in DOMAIN assignments : assignments[n] \in 0..(k - 1)

\* No two nodes share a cluster id.
EachNodeItsOwnCluster ==
    \A m, n \in DOMAIN assignments : m # n => assignments[m] # assignments[n]

\* No two nodes have the same feature vector.
DistinctFeatures ==
    \A m, n \in DOMAIN features : m # n => features[m] # features[n]

\* C1: with k greater than the number of nodes, kmeans fails with a
\* configuration error: it never enters its loop with fewer than k centroids
\* and never returns an assignment.
C1_RejectsKAboveNodeCount ==
    (kpc # "idle" /\ k > NodeCount) =>
        /\ kpc # "done"
        /\ kpc \in {"loop", "update"} => Len(centroids) >= k

\* C2: with k = 0, kmeans is rejected before the first assignment step: it
\* neither indexes the empty centroid list (a panic) nor returns an assignment.
C2_RejectsZeroK ==
    (kpc # "idle" /\ k = 0) => kpc \notin {"update", "panic", "done"}

\* C3 as claimed: for 1 <= k <= n and every max_iters >= 0, kmeans returns a
\* map with exactly the input nodes as keys and every value in [0, k).
C3_AssignmentCoversNodesAnyIters ==
    (kpc # "idle" /\ ValidK) =>
        /\ kpc # "panic"
        /\ kpc = "done" => WellFormedAssignment

\* C3 as amended: for 1 <= k <= n and every max_iters >= 1, kmeans does not
\* panic and returns a map with exactly the input nodes as keys and every
\* value in [0, k).
C3_AssignmentCoversNodes ==
    (kpc # "idle" /\ ValidK /\ max_iters >= 1) =>
        /\ kpc # "panic"
        /\ kpc = "done" => WellFormedAssignment

C3_Witness ==
    /\ kpc = "done" /\ ValidK /\ k >= 2 /\ max_iters = MaxIters /\ iter = max_iters
    /\ NodeCount > k
    /\ \E m, n \in DOMAIN assignments : assignments[m] # assignments[n]

\* C4: on the feature map of test_kmeans with k = 2 and max_iters = 100,
\* whatever two nodes are chosen as initial centroids, the returned assignment
\* puts nodes 1 and 2 together, nodes 3 and 4 together, and the two groups apart.
C4_TestGroupsSeparated ==
    kpc = "done" =>
        /\ DOMAIN assignments = {1, 2, 3, 4}
        /\ assignments[1] = assignments[2]
        /\ assignments[3] = assignments[4]
        /\ assignments[1] # assignments[3]

C4_Witness ==
    /\ kpc = "done" /\ iter = TestMaxIters /\ features = TestFeatures
    /\ assignments[1] = 1 /\ assignments[3] = 0

\* C5 as claimed: with k equal to the number of nodes (n >= 1) and
\* max_iters >= 1, kmeans is accepted and no two nodes share a cluster id,
\* also when two nodes have the same feature vector.
C5_EachNodeOwnClusterAnyFeatures ==
    (kpc # "idle" /\ NodeCount >= 1 /\ k = NodeCount /\ max_iters >= 1) =>
        /\ kpc # "panic"
        /\ kpc = "done" => (WellFormedAssignment /\ EachNodeItsOwnCluster)

\* C5 as amended: the same, for feature maps in which no two nodes have the
\* same feature vector.
C5_EachNodeOwnCluster ==
    (kpc # "idle" /\ NodeCount >= 1 /\ k = NodeCount /\ max_iters >= 1
        /\ DistinctFeatures) =>
        /\ kpc # "panic"
        /\ kpc = "done" => (WellFormedAssignment /\ EachNodeItsOwnCluster)

C5_Witness ==
    /\ kpc = "done" /\ NodeCount = MaxKNodes /\ k = NodeCount
    /\ max_iters = MaxIters /\ iter = max_iters /\ DistinctFeatures
    /\ EachNodeItsOwnCluster /\ DOMAIN assignments = DOMAIN features

\* The distance of node n to the centroid of index i (0-based).
DistanceTo(n, i) == euclidean_distance(features[n], centroids[i + 1])

\* C16: after every assignment step each node is assigned to a centroid at
\* minimal distance among the current centroids, and of the centroids at that
\* minimal distance to the one of lowest index.
C16_AssignedToNearestLowestIndex ==
    kpc = "update" =>
        \A n \in DOMAIN features :
            /\ n \in DOMAIN assignments
            /\ assignments[n] \in 0..(Len(centroids) - 1)
            /\ \A j \in 0..(Len(centroids) - 1) :
                  /\ ~DistLess(DistanceTo(n, j), DistanceTo(n, assignments[n]))
                  /\ j < assignments[n] =>
                        DistLess(DistanceTo(n, assignments[n]), DistanceTo(n, j))

C16_Witness ==
    /\ kpc = "update"
    /\ \E n \in DOMAIN features : \E j \in 0..(Len(centroids) - 1) :
          /\ assignments[n] >= 1
          /\ j > assignments[n]
          /\ DistanceTo(n, j) = DistanceTo(n, assignments[n])

\* c is the per-dimension arithmetic mean of the feature vectors of the nodes
\* of the non-empty set m.
IsMeanOf(c, m) ==
    /\ c[4] > 0
    /\ \A j \in 1..3 : c[j] * Cardinality(m) = c[4] * SumFeat(m, features, j)

\* C17: an update step leaves the number of centroids as it is, makes every
\* centroid with at least one assigned node the mean of the feature vectors of
\* exactly the nodes assigned to it, and keeps every centroid with no assigned
\* node at the value it had.
C17_UpdateMeansAndKeepsEmpty ==
    [][(kpc = "update" /\ kpc' = "loop") =>
          /\ Len(centroids') = Len(centroids)
          /\ \A i \in 1..Len(centroids) :
                IF Members(assignments, i - 1) # {}
                THEN IsMeanOf(centroids'[i], Members(assignments, i - 1))
                ELSE centroids'[i] = centroids[i]]_vars

C17_Witness ==
    /\ kpc = "loop" /\ iter >= 1
    /\ \E i \in 1..Len(centroids) :
          /\ Members(assignments, i - 1) = {}
          /\ centroids[i] # <<0, 0, 0, 1>>
    /\ \E i \in 1..Len(centroids) :
          /\ Cardinality(Members(assignments, i - 1)) >= 2
          /\ IsMeanOf(centroids[i], Members(assignments, i - 1))
          /\ \A n \in DOMAIN features : centroids[i] # AsCentroid(features[n])

\* The number of steps a call still has to take: two for each iteration not yet
\* completed, one less once its assignment step is done, and the return.
StepsLeft ==
    CASE kpc = "init"   -> 2 * max_iters + 2
      [] kpc = "loop"   -> 2 * (max_iters - iter) + 1
      [] kpc = "update" -> 2 * (max_iters - iter)
      [] OTHER          -> 0

\* C18: for 1 <= k <= n, kmeans terminates after exactly max_iters
\* iterations: before it has returned it has not faulted, a next step is
\* possible (the update step, once begun, is one step that leads to the next
\* round) and every step lowers the number of steps left, down to the return;
\* it returns only
\* when the count of completed iterations is max_iters; that count starts at 0
\* and grows by one with each update step and with nothing else; every update
\* step follows an assignment step that covered every node, and an assignment
\* step begins only while iterations are left, whether or not the previous
\* iteration changed anything.
C18_RunsFullBudget ==
    /\ []((ValidK /\ kpc # "done") =>
            /\ StepsLeft > 0
            /\ kpc \in {"init", "loop", "update"}
            /\ kpc # "update" => ENABLED NextKMeans)
    /\ []((ValidK /\ kpc = "done") => iter = max_iters)
    /\ []((ValidK /\ kpc = "init") => iter = 0)
    /\ [][ValidK =>
            /\ StepsLeft' = StepsLeft - 1
            /\ iter' # iter =>
                  (kpc = "update" /\ kpc' = "loop" /\ iter' = iter + 1)
            /\ kpc = "update" => (kpc' = "loop" /\ iter' = iter + 1)
            /\ kpc' = "update" =>
                  /\ kpc = "loop" /\ iter < max_iters
                  /\ DOMAIN assignments' = DOMAIN features
            /\ kpc' = "done" => (kpc = "loop" /\ iter = max_iters)]_vars

C18_Witness ==
    /\ kpc = "done" /\ ValidK /\ NodeCount >= 2
    /\ max_iters = MaxIters /\ iter = MaxIters /\ MaxIters >= 2
    /\ \A n \in DOMAIN features : assignments[n] = Nearest(features[n], centroids)
    /\ \A i \in 1..Len(centroids) :
          centroids[i] = NewCentroid(i - 1, centroids, assignments, features)

\* A fixed point of the iteration: an assignment step on the centroids cents
\* yields the assignment assign, and an update step on that assignment yields
\* the centroids cents.
FixedPoint(cents, assign, feats) ==
    /\ assign = [n \in DOMAIN feats |-> Nearest(feats[n], cents)]
    /\ \A i \in 1..Len(cents) : cents[i] = NewCentroid(i - 1, cents, assign, feats)

\* C22: when the assignment step of an iteration after the first yields the
\* assignment of the iteration before it, a fixed point is reached; and from a
\* fixed point on no step changes the assignment or the centroids, so the
\* assignment returned is that one whatever iterations are left.
C22_StableOnceAssignmentRepeats ==
    [][/\ (kpc = "loop" /\ iter >= 1 /\ kpc' = "update"
              /\ assignments' = assignments) =>
             FixedPoint(centroids', assignments', features')
       /\ (kpc \in {"loop", "update"} /\ iter >= 1
              /\ FixedPoint(centroids, assignments, features)) =>
             /\ assignments' = assignments
             /\ centroids' = centroids
             /\ kpc' \in {"loop", "update", "done"}]_vars

C22_Witness ==
    /\ kpc = "done" /\ iter >= 2 /\ NodeCount > k /\ k >= 2
    /\ FixedPoint(centroids, assignments, features)
    /\ \E i \in 1..Len(centroids) :
          /\ Cardinality(Members(assignments, i - 1)) >= 2
          /\ \A n \in DOMAIN features : centroids[i] # AsCentroid(features[n])

----------------------------------------------------------------------------
(* find_clusters, cluster.rs:9-44 *)

\* Bounds of the find_clusters inputs: node ids 1..FMaxNode, at most FMaxEdges pairs.
FMaxNode == 4
FMaxEdges == 2

\* The edge list of tests::test_find_clusters.
TestClusterEdges == <<<<1, 2>>, <<2, 3>>, <<10, 11>>>>

\* graph.entry(a).or_default().push(b)
PushNeighbour(g, a, b) ==
    IF a \in DOMAIN g THEN [g EXCEPT ![a] = Append(@, b)] ELSE g @@ (a :> <<b>>)

\* Mutant of AddEdge: the pair is entered in one direction only.
AddEdgeDirected(g, e) == PushNeighbour(g, e[1], e[2])

\* One round of the loop over edges: v under u, then u under v.
AddEdge(g, e) == PushNeighbour(PushNeighbour(g, e[1], e[2]), e[2], e[1])

\* cluster.rs:10-14: the adjacency map of the first i pairs of the list.
RECURSIVE BuildGraphUpTo(_, _)
BuildGraphUpTo(edges, i) ==
    IF i = 0 THEN EmptyMap ELSE AddEdge(BuildGraphUpTo(edges, i - 1), edges[i])

BuildGraph(edges) == BuildGraphUpTo(edges, Len(edges))

\* graph.get(&curr).unwrap_or(&vec![])
NeighboursOf(g, n) == IF n \in DOMAIN g THEN g[n] ELSE <<>>

\* Mutant of VisitNeighbours: an unvisited neighbour is queued but not marked.
RECURSIVE VisitNeighboursNoMark(_, _, _, _)
VisitNeighboursNoMark(nbrs, i, vis, q) ==
    IF i > Len(nbrs) THEN <<vis, q>>
    ELSE IF nbrs[i] \notin vis
         THEN VisitNeighboursNoMark(nbrs, i + 1, vis, Append(q, nbrs[i]))
         ELSE VisitNeighboursNoMark(nbrs, i + 1, vis, q)

\* Mutant of VisitNeighbours: the scan stops at the first unvisited neighbour.
VisitNeighboursFirstOnly(nbrs, i, vis, q) ==
    LET unvisited == {j \in i..Len(nbrs) : nbrs[j] \notin vis}
    IN  IF unvisited = {} THEN <<vis, q>>
        ELSE LET j == CHOOSE x \in unvisited : \A y \in unvisited : x <= y
             IN  <<vis \cup {nbrs[j]}, Append(q, nbrs[j])>>

\* cluster.rs:32-37: the neighbours from position i on, in list order; an
\* unvisited one is marked and queued.  Yields <<visited, queue>>.
RECURSIVE VisitNeighbours(_, _, _, _)
VisitNeighbours(nbrs, i, vis, q) ==
    IF i > Len(nbrs) THEN <<vis, q>>
    ELSE IF nbrs[i] \notin vis
         THEN VisitNeighbours(nbrs, i + 1, vis \cup {nbrs[i]}, Append(q, nbrs[i]))
         ELSE VisitNeighbours(nbrs, i + 1, vis, q)

\* cluster.rs:10-17
FCBuild ==
    /\ fpc = "build"
    /\ fgraph' = BuildGraph(fedges)
    /\ fkeys' = DOMAIN fgraph'
    /\ visited' = {}
    /\ clusters' = <<>>
    /\ fpc' = "outer"
    /\ UNCHANGED <<fedges, cluster, queue>>
    /\ UNCHANGED <<kmVars, dgVars, clVars, bwVars, nfVars>>

\* cluster.rs:19-22: graph.keys() yields a visited node, in whatever order the
\* hash map enumerates its keys.
FCSkipVisited ==
    /\ fpc = "outer"
    /\ \E node \in fkeys :
          /\ node \in visited
          /\ fkeys' = fkeys \ {node}
    /\ UNCHANGED <<fedges, fgraph, visited, clusters, cluster, queue, fpc>>
    /\ UNCHANGED <<kmVars, dgVars, clVars, bwVars, nfVars>>

\* cluster.rs:19-28: graph.keys() yields an unvisited node, a BFS starts there.
FCStartBFS ==
    /\ fpc = "outer"
    /\ \E node \in fkeys :
          /\ node \notin visited
          /\ fkeys' = fkeys \ {node}
          /\ cluster' = {}
          /\ queue' = <<node>>
          /\ visited' = visited \cup {node}
    /\ fpc' = "bfs"
    /\ UNCHANGED <<fedges, fgraph, clusters>>
    /\ UNCHANGED <<kmVars, dgVars, clVars, bwVars, nfVars>>

\* cluster.rs:30-38: one round of the while loop.
FCPop ==
    /\ fpc = "bfs"
    /\ queue # <<>>
    /\ LET curr == Head(queue)
           r == VisitNeighbours(NeighboursOf(fgraph, curr), 1, visited, Tail(queue))
       IN  /\ cluster' = cluster \cup {curr}
           /\ visited' = r[1]
           /\ queue' = r[2]
    /\ UNCHANGED <<fedges, fgraph, fkeys, clusters, fpc>>
    /\ UNCHANGED <<kmVars, dgVars, clVars, bwVars, nfVars>>

\* cluster.rs:40: the queue is empty, the component is pushed.
FCPushCluster ==
    /\ fpc = "bfs"
    /\ queue = <<>>
    /\ clusters' = Append(clusters, cluster)
    /\ cluster' = {}
    /\ fpc' = "outer"
    /\ UNCHANGED <<fedges, fgraph, fkeys, visited, queue>>
    /\ UNCHANGED <<kmVars, dgVars, clVars, bwVars, nfVars>>

\* cluster.rs:43: the keys are exhausted, clusters is returned.
FCReturn ==
    /\ fpc = "outer"
    /\ fkeys = {}
    /\ fpc' = "done"
    /\ UNCHANGED <<fedges, fgraph, fkeys, visited, clusters, cluster, queue>>
    /\ UNCHANGED <<kmVars, dgVars, clVars, bwVars, nfVars>>

FPairs == (1..FMaxNode) \X (1..FMaxNode)

InitClusters ==
    /\ fedges \in SeqsUpTo(FPairs, FMaxEdges) \cup {TestClusterEdges}
    /\ fgraph = EmptyMap /\ fkeys = {} /\ visited = {} /\ clusters = <<>>
    /\ cluster = {} /\ queue = <<>> /\ fpc = "build"
    /\ KMIdle /\ DGIdle /\ CLIdle /\ BWIdle /\ NFIdle

NextClusters ==
    \/ FCBuild
    \/ FCSkipVisited
    \/ FCStartBFS
    \/ FCPop
    \/ FCPushCluster
    \/ FCReturn

SpecClusters == InitClusters /\ [][NextClusters]_vars

----------------------------------------------------------------------------
(* Properties of find_clusters *)

\* The nodes that occur in some pair of an edge list.
NodesOf(edges) == UNION {{edges[i][1], edges[i][2]} : i \in 1..Len(edges)}

\* u and v are the two ends of some pair of the list.
Adjacent(edges, u, v) ==
    \E i \in 1..Len(edges) : edges[i] = <<u, v>> \/ edges[i] = <<v, u>>

\* The nodes joined to a node of S by a path of pairs of the list: the least
\* set that holds S and is closed under Adjacent.
RECURSIVE PathClosure(_, _)
PathClosure(edges, S) ==
    LET T == S \cup {v \in NodesOf(edges) : \E u \in S : Adjacent(edges, u, v)}
    IN  IF T = S THEN S ELSE PathClosure(edges, T)

\* The connected component of u.
ComponentOf(edges, u) == PathClosure(edges, {u})

\* The connected components of the graph of an edge list.
ConnectedComponents(edges) == {ComponentOf(edges, u) : u \in NodesOf(edges)}

ClusterIndexes == 1..Len(clusters)

\* C6: the returned components partition the nodes of the edge list: each
\* node is in exactly one, they are pairwise disjoint and non-empty, no other
\* node occurs, and the empty list yields no component.
C6_ClustersPartitionNodes ==
    fpc = "done" =>
        /\ \A n \in NodesOf(fedges) :
              Cardinality({i \in ClusterIndexes : n \in clusters[i]}) = 1
        /\ \A i, j \in ClusterIndexes : i # j => clusters[i] \cap clusters[j] = {}
        /\ \A i \in ClusterIndexes : clusters[i] # {}
        /\ \A i \in ClusterIndexes : clusters[i] \subseteq NodesOf(fedges)
        /\ fedges = <<>> => clusters = <<>>

C6_Witness ==
    /\ fpc = "done" /\ Len(clusters) = 2 /\ Len(fedges) = FMaxEdges
    /\ \E i \in ClusterIndexes : Cardinality(clusters[i]) = 2
    /\ \E i \in 1..Len(fedges) : fedges[i][1] = fedges[i][2]

\* C7: each returned component is a maximal connected set: its nodes are
\* pairwise joined by paths of input pairs, no input pair has its ends in two
\* components, and there are as many components as the graph has connected
\* components; [(1,2),(2,3),(10,11)] gives two, of sizes 3 and 2.
C7_ClustersAreConnectedComponents ==
    fpc = "done" =>
        /\ \A i \in ClusterIndexes : \A u, v \in clusters[i] :
              v \in ComponentOf(fedges, u)
        /\ \A e \in 1..Len(fedges) : \A i \in ClusterIndexes :
              fedges[e][1] \in clusters[i] <=> fedges[e][2] \in clusters[i]
        /\ Len(clusters) = Cardinality(ConnectedComponents(fedges))
        /\ fedges = TestClusterEdges =>
              /\ Len(clusters) = 2
              /\ {Cardinality(clusters[i]) : i \in ClusterIndexes} = {2, 3}

C7_Witness ==
    /\ fpc = "done" /\ fedges = TestClusterEdges
    /\ clusters = <<{10, 11}, {1, 2, 3}>>

\* C20: whatever order the keys of the adjacency map are enumerated in as
\* start nodes, the set of returned components is the set of connected
\* components of the edge list, so any two orders return the same node sets;
\* only the order of the list differs.
C20_ComponentsIndependentOfKeyOrder ==
    fpc = "done" =>
        {clusters[i] : i \in ClusterIndexes} = ConnectedComponents(fedges)

C20_Witness ==
    /\ fpc = "done" /\ fedges = TestClusterEdges
    /\ clusters = <<{1, 2, 3}, {10, 11}>>

----------------------------------------------------------------------------
(* compute_degree, graph.rs:52-59 *)

\* Bounds of the compute_degree inputs.
DMaxNode == 3
DMaxEdges == 3

\* The edge list of tests::test_compute_degree (and of test_compute_closeness).
TestChainEdges == <<<<1, 2>>, <<2, 3>>, <<3, 4>>>>

\* Mutant of Increment: the entry is set to 1 instead of being counted up.
IncrementOverwrite(m, n) == IF n \in DOMAIN m THEN [m EXCEPT ![n] = 1] ELSE m @@ (n :> 1)

\* *degrees.entry(n).or_insert(0) += 1
Increment(m, n) == IF n \in DOMAIN m THEN [m EXCEPT ![n] = @ + 1] ELSE m @@ (n :> 1)

\* graph.rs:54-57: one round of the loop over edges.
DGStep ==
    /\ dpc = "loop"
    /\ di < Len(dedges)
    /\ LET e == dedges[di + 1]
       IN  degrees' = Increment(Increment(degrees, e[1]), e[2])
    /\ di' = di + 1
    /\ UNCHANGED <<dedges, dpc>>
    /\ UNCHANGED <<kmVars, fcVars, clVars, bwVars, nfVars>>

\* graph.rs:58: the list is exhausted, degrees is returned.
DGReturn ==
    /\ dpc = "loop"
    /\ di = Len(dedges)
    /\ dpc' = "done"
    /\ UNCHANGED <<dedges, degrees, di>>
    /\ UNCHANGED <<kmVars, fcVars, clVars, bwVars, nfVars>>

DPairs == (1..DMaxNode) \X (1..DMaxNode)

InitDegree ==
    /\ dedges \in SeqsUpTo(DPairs, DMaxEdges) \cup {TestChainEdges}
    /\ degrees = EmptyMap /\ di = 0 /\ dpc = "loop"
    /\ KMIdle /\ FCIdle /\ CLIdle /\ BWIdle /\ NFIdle

NextDegree ==
    \/ DGStep
    \/ DGReturn

SpecDegree == InitDegree /\ [][NextDegree]_vars

----------------------------------------------------------------------------
(* Properties of compute_degree *)

\* The number of pairs of the list that have n as an end, a pair counted once.
IncidentPairs(edges, n) ==
    Cardinality({i \in 1..Len(edges) : edges[i][1] = n \/ edges[i][2] = n})

\* The number of ends of pairs of the list that are n: a pair (n, n) has two.
EndpointOccurrences(edges, n) ==
    Cardinality({i \in 1..Len(edges) : edges[i][1] = n})
        + Cardinality({i \in 1..Len(edges) : edges[i][2] = n})

\* C8 as claimed: the keys of the returned map are the nodes of the list and
\* each node maps to the number of input pairs that have it as an endpoint,
\* pairs (n, n) included.
C8_DegreeCountsIncidentPairs ==
    dpc = "done" =>
        /\ DOMAIN degrees = NodesOf(dedges)
        /\ \A n \in DOMAIN degrees : degrees[n] = IncidentPairs(dedges, n)

\* C8 as amended: each node maps to the number of pair ends equal to it, so
\* a repeated pair counts once per occurrence and a pair (n, n) counts twice.
C8_DegreeCountsEndpoints ==
    dpc = "done" =>
        /\ DOMAIN degrees = NodesOf(dedges)
        /\ \A n \in DOMAIN degrees : degrees[n] = EndpointOccurrences(dedges, n)

C8_Witness ==
    /\ dpc = "done" /\ Len(dedges) = DMaxEdges
    /\ \E i \in 1..Len(dedges) : dedges[i][1] = dedges[i][2]
    /\ \E i, j \in 1..Len(dedges) : i # j /\ dedges[i] = dedges[j]
                                      /\ dedges[i][1] # dedges[i][2]
    /\ \E n \in DOMAIN degrees : degrees[n] = 4

----------------------------------------------------------------------------
(* compute_closeness, graph.rs:64-101 *)

\* Bounds of the compute_closeness inputs: node ids 1..CMaxNode (the subset S
\* is any set of them, in the edge list or not), at most CMaxEdges pairs.
CMaxNode == 3
CMaxEdges == 2

\* The subset of tests::test_compute_closeness.
TestChainNodes == {1, 2, 3, 4}

\* graph.rs:65-69: the same construction as in find_clusters.
ClosenessGraph(edges) == BuildGraph(edges)

\* The f64 quotient a / b of two counts (b > 0), as a fraction in lowest terms.
Quotient(a, b) == LET g == Gcd(a, b) IN <<a \div g, b \div g>>

\* The f64 0.0.
Zero == <<0, 1>>

\* Mutant of RelaxNeighbours: a neighbour gets the distance of the node it is
\* found from.
RECURSIVE RelaxNeighboursSameDist(_, _, _, _, _)
RelaxNeighboursSameDist(nbrs, i, dist, vis, q) ==
    IF i > Len(nbrs) THEN <<vis, q>>
    ELSE IF nbrs[i] \notin DOMAIN vis
         THEN RelaxNeighboursSameDist(nbrs, i + 1, dist, vis @@ (nbrs[i] :> dist),
                                      Append(q, nbrs[i]))
         ELSE RelaxNeighboursSameDist(nbrs, i + 1, dist, vis, q)

\* graph.rs:82-87: the neighbours from position i on; one not yet in visited
\* is entered at dist + 1 and queued.  Yields <<visited, queue>>.
RECURSIVE RelaxNeighbours(_, _, _, _, _)
RelaxNeighbours(nbrs, i, dist, vis, q) ==
    IF i > Len(nbrs) THEN <<vis, q>>
    ELSE IF nbrs[i] \notin DOMAIN vis
         THEN RelaxNeighbours(nbrs, i + 1, dist, vis @@ (nbrs[i] :> dist + 1),
                              Append(q, nbrs[i]))
         ELSE RelaxNeighbours(nbrs, i + 1, dist, vis, q)

\* graph.rs:80-88: the while loop.  visited[&node] faults when the node has
\* no entry; graph.get(&node).unwrap_or(&vec![]) does not.
RECURSIVE ClosenessBfs(_, _, _)
ClosenessBfs(g, vis, q) ==
    IF q = <<>> THEN [ok |-> TRUE, visited |-> vis]
    ELSE LET node == Head(q)
         IN  IF node \notin DOMAIN vis
             THEN [ok |-> FALSE, visited |-> vis]
             ELSE LET r == RelaxNeighbours(NeighboursOf(g, node), 1, vis[node],
                                           vis, Tail(q))
                  IN  ClosenessBfs(g, r[1], r[2])

\* visited.values().sum()
RECURSIVE SumValues(_)
SumValues(m) ==
    IF DOMAIN m = {} THEN 0
    ELSE LET n == CHOOSE x \in DOMAIN m : TRUE
         IN  m[n] + SumValues([x \in DOMAIN m \ {n} |-> m[x]])

\* Mutant of ClosenessScore: the quotient is taken whatever the sum is; 0/0 is NaN.
ClosenessScoreUnguarded(vis) ==
    LET total == SumValues(vis)
    IN  [score   |-> IF total > 0 THEN Quotient(Cardinality(DOMAIN vis) - 1, total)
                     ELSE "NaN",
         divisor |-> {total}]

\* graph.rs:91-96: the score of one source and the divisor of the division
\* it performs, if any.
ClosenessScore(vis) ==
    LET total == SumValues(vis)
    IN  IF total > 0
        THEN [score |-> Quotient(Cardinality(DOMAIN vis) - 1, total), divisor |-> {total}]
        ELSE [score |-> Zero, divisor |-> {}]

\* closeness.insert(start, score)
Insert(m, key, val) == [n \in DOMAIN m \cup {key} |-> IF n = key THEN val ELSE m[n]]

\* graph.rs:65-71
CLBuild ==
    /\ cpc = "build"
    /\ cgraph' = ClosenessGraph(cedges)
    /\ cleft' = cnodes
    /\ closeness' = EmptyMap
    /\ cpc' = "loop"
    /\ UNCHANGED <<cedges, cnodes, divisions>>
    /\ UNCHANGED <<kmVars, fcVars, dgVars, bwVars, nfVars>>

\* graph.rs:73-98: one round of the loop over nodes, the sources in whatever
\* order the hash set enumerates them.
CLSource ==
    /\ cpc = "loop"
    /\ \E start \in cleft :
          LET bfs == ClosenessBfs(cgraph, (start :> 0), <<start>>)
              res == ClosenessScore(bfs.visited)
          IN  IF bfs.ok
              THEN /\ closeness' = Insert(closeness, start, res.score)
                   /\ divisions' = divisions \cup res.divisor
                   /\ cleft' = cleft \ {start}
                   /\ cpc' = "loop"
              ELSE /\ cpc' = "panic"
                   /\ UNCHANGED <<closeness, divisions, cleft>>
    /\ UNCHANGED <<cedges, cnodes, cgraph>>
    /\ UNCHANGED <<kmVars, fcVars, dgVars, bwVars, nfVars>>

\* graph.rs:100: the sources are exhausted, closeness is returned.
CLReturn ==
    /\ cpc = "loop"
    /\ cleft = {}
    /\ cpc' = "done"
    /\ UNCHANGED <<cedges, cnodes, cgraph, cleft, closeness, divisions>>
    /\ UNCHANGED <<kmVars, fcVars, dgVars, bwVars, nfVars>>

CPairs == (1..CMaxNode) \X (1..CMaxNode)

InitCloseness ==
    /\ \/ /\ cedges \in SeqsUpTo(CPairs, CMaxEdges)
          /\ cnodes \in SUBSET (1..CMaxNode)
       \/ /\ cedges = TestChainEdges
          /\ cnodes = TestChainNodes
    /\ cgraph = EmptyMap /\ cleft = {} /\ closeness = EmptyMap /\ divisions = {}
    /\ cpc = "build"
    /\ KMIdle /\ FCIdle /\ DGIdle /\ BWIdle /\ NFIdle

NextCloseness ==
    \/ CLBuild
    \/ CLSource
    \/ CLReturn

SpecCloseness == InitCloseness /\ [][NextCloseness]_vars

----------------------------------------------------------------------------
(* Properties of compute_closeness *)

\* The nodes at most n hops from s along pairs of the list.
RECURSIVE Ball(_, _, _)
Ball(edges, s, n) ==
    IF n = 0 THEN {s}
    ELSE LET B == Ball(edges, s, n - 1)
         IN  B \cup {v \in NodesOf(edges) : \E u \in B : Adjacent(edges, u, v)}

\* The shortest-path hop distance from s to a node t reachable from s.
HopDistance(edges, s, t) ==
    CHOOSE n \in 0..Cardinality(NodesOf(edges)) :
        /\ t \in Ball(edges, s, n)
        /\ n > 0 => t \notin Ball(edges, s, n - 1)

RECURSIVE SumHopDistances(_, _, _)
SumHopDistances(edges, s, T) ==
    IF T = {} THEN 0
    ELSE LET t == CHOOSE x \in T : TRUE
         IN  HopDistance(edges, s, t) + SumHopDistances(edges, s, T \ {t})

\* (R - 1) / D over the nodes reachable from s when D > 0, else 0.0.
ReferenceCloseness(edges, s) ==
    LET reach == ComponentOf(edges, s)
        R == Cardinality(reach)
        D == SumHopDistances(edges, s, reach)
    IN  IF D > 0 THEN Quotient(R - 1, D) ELSE Zero

\* C9: every source s of S that has been processed is mapped to (R - 1) / D
\* when D > 0 and to 0.0 otherwise, R the number of nodes reachable from s
\* (s included) and D the sum of their shortest-path hop distances from s.
C9_ClosenessIsReachableRatio ==
    /\ cpc # "panic"
    /\ \A s \in DOMAIN closeness : closeness[s] = ReferenceCloseness(cedges, s)
    /\ cpc = "done" => DOMAIN closeness = cnodes

C9_Witness ==
    /\ cpc = "done"
    /\ \E s \in cnodes :
          /\ Cardinality(ComponentOf(cedges, s)) = 3
          /\ closeness[s] = <<2, 3>>
    /\ \E s \in cnodes : closeness[s] = <<1, 1>>

\* C10: compute_closeness completes without a fault for every edge list and
\* every subset S, returns a map whose key set is S, gives 0.0 to every node
\* of S that occurs in no pair, and never divides by a zero distance sum.
C10_ClosenessTotalOnAnySubset ==
    /\ cpc # "panic"
    /\ 0 \notin divisions
    /\ DOMAIN closeness \subseteq cnodes
    /\ \A s \in DOMAIN closeness : s \notin NodesOf(cedges) => closeness[s] = Zero
    /\ cpc = "done" => DOMAIN closeness = cnodes

C10_Witness ==
    /\ cpc = "done"
    /\ \E s \in cnodes : s \notin NodesOf(cedges) /\ closeness[s] = Zero
    /\ \E s \in cnodes : s \in NodesOf(cedges) /\ closeness[s] # Zero
    /\ divisions # {}

----------------------------------------------------------------------------
(* compute_betweenness, graph.rs:106-170 *)

\* Bounds of the compute_betweenness inputs: node ids 1..BMaxNode (the subset
\* S is any set of them), at most BMaxEdges pairs; and the chains
\* 1 - 2 - ... - n and the rings 1 - 2 - ... - n - 1 for n up to BMaxChain,
\* with any subset of their nodes.
BMaxNode == 2
BMaxEdges == 2
BMaxChain == 4

\* The chain [(1,2),(2,3),...,(n-1,n)]; tests::test_compute_betweenness has n = 4.
ChainEdges(n) == [i \in 1..(n - 1) |-> <<i, i + 1>>]

\* The chain closed by the pair (n, 1): a graph with two shortest paths
\* between opposite nodes when n is even.
RingEdges(n) == Append(ChainEdges(n), <<n, 1>>)

\* graph.rs:107-111: the same construction as in find_clusters.
BetweennessGraph(edges) == BuildGraph(edges)

\* An f64 that is a fraction <<num, den>> in lowest terms, den > 0; den = 0
\* stands for a value that is not finite (inf, NaN).
NonFinite == <<0, 0>>
IsFinite(x) == x[2] # 0
Fraction(n, d) == LET g == Gcd(Abs(n), d) IN <<n \div g, d \div g>>
One == <<1, 1>>

\* a + b, a * n and a / n on such values, n a count (sigma) held as an f64.
FAdd(a, b) ==
    IF IsFinite(a) /\ IsFinite(b)
    THEN Fraction(a[1] * b[2] + b[1] * a[2], a[2] * b[2]) ELSE NonFinite
FMulCount(a, n) == IF IsFinite(a) THEN Fraction(a[1] * n, a[2]) ELSE NonFinite
FDivCount(a, n) == IF IsFinite(a) /\ n # 0 THEN Fraction(a[1], a[2] * n) ELSE NonFinite
FDiv(a, b) ==
    IF IsFinite(a) /\ IsFinite(b) /\ b[1] > 0
    THEN Fraction(a[1] * b[2], a[2] * b[1]) ELSE NonFinite
FLess(a, b) == IsFinite(a) /\ IsFinite(b) /\ a[1] * b[2] < b[1] * a[2]

\* map.get(&key).unwrap_or(&0.0)
GetOrZero(m, key) == IF key \in DOMAIN m THEN m[key] ELSE Zero

\* Mutant of BrandesStart: sigma of the source is not seeded with 1.0.
BrandesStartNoSeed(g, s) ==
    [ok    |-> TRUE,
     stack |-> <<>>,
     pred  |-> [v \in DOMAIN g |-> <<>>],
     sigma |-> Insert([v \in DOMAIN g |-> 0], s, 0),
     dist  |-> (s :> 0),
     queue |-> <<s>>]

\* graph.rs:115-129: the scratch state of one source.
BrandesStart(g, s) ==
    [ok    |-> TRUE,
     stack |-> <<>>,
     pred  |-> [v \in DOMAIN g |-> <<>>],
     sigma |-> Insert([v \in DOMAIN g |-> 0], s, 1),
     dist  |-> (s :> 0),
     queue |-> <<s>>]

\* Mutant of ScanNeighbours: v is not recorded as a predecessor of w.
RECURSIVE ScanNeighboursNoPred(_, _, _, _, _)
ScanNeighboursNoPred(nbrs, i, v, d, st) ==
    IF i > Len(nbrs) THEN st
    ELSE LET w == nbrs[i]
             st1 == IF w \notin DOMAIN st.dist
                    THEN [st EXCEPT !.dist = @ @@ (w :> d + 1),
                                    !.queue = Append(@, w)]
                    ELSE st
             st2 == IF st1.dist[w] = d + 1
                    THEN [st1 EXCEPT !.sigma[w] = @ + st1.sigma[v]]
                    ELSE st1
         IN  ScanNeighboursNoPred(nbrs, i + 1, v, d, st2)

\* graph.rs:135-144: the neighbours of v (at distance d) from position i on.
\* Every neighbour is a key of the graph, so sigma[&w] and pred.get_mut(&w)
\* find their entries.
RECURSIVE ScanNeighbours(_, _, _, _, _)
ScanNeighbours(nbrs, i, v, d, st) ==
    IF i > Len(nbrs) THEN st
    ELSE LET w == nbrs[i]
             st1 == IF w \notin DOMAIN st.dist
                    THEN [st EXCEPT !.dist = @ @@ (w :> d + 1),
                                    !.queue = Append(@, w)]
                    ELSE st
             st2 == IF st1.dist[w] = d + 1
                    THEN [st1 EXCEPT !.sigma[w] = @ + st1.sigma[v],
                                     !.pred[w] = Append(@, v)]
                    ELSE st1
         IN  ScanNeighbours(nbrs, i + 1, v, d, st2)

\* graph.rs:132-145: the BFS.  &graph[&v] faults when v is no key of the
\* graph, which only the source can be.
RECURSIVE BrandesBfs(_, _)
BrandesBfs(g, st) ==
    IF st.queue = <<>> THEN st
    ELSE LET v == Head(st.queue)
             st1 == [st EXCEPT !.stack = Append(@, v), !.queue = Tail(@)]
         IN  IF v \notin DOMAIN g
             THEN [st1 EXCEPT !.ok = FALSE]
             ELSE BrandesBfs(g, ScanNeighbours(g[v], 1, v, st.dist[v], st1))

\* graph.rs:151-154: delta[p] += sigma[p] * coeff for the predecessors of one
\* node, from position i on.
RECURSIVE AddContributions(_, _, _, _, _)
AddContributions(preds, i, sigma, coeff, delta) ==
    IF i > Len(preds) THEN delta
    ELSE LET p == preds[i]
             contrib == FMulCount(coeff, sigma[p])
         IN  AddContributions(preds, i + 1, sigma, coeff,
                              Insert(delta, p, FAdd(GetOrZero(delta, p), contrib)))

\* Mutant of Accumulate: the dependency of the source itself is added to its
\* score too (the test v != s is dropped).
RECURSIVE AccumulateWithSource(_, _, _, _)
AccumulateWithSource(st, s, i, acc) ==
    IF i = 0 THEN acc
    ELSE LET v == st.stack[i]
             coeff == FDivCount(FAdd(One, GetOrZero(acc.delta, v)), st.sigma[v])
             delta == AddContributions(st.pred[v], 1, st.sigma, coeff, acc.delta)
             cent == Insert(acc.centrality, v,
                            FAdd(GetOrZero(acc.centrality, v), GetOrZero(delta, v)))
         IN  AccumulateWithSource(st, s, i - 1,
                                  [delta |-> delta, centrality |-> cent,
                                   divisors |-> acc.divisors \cup {st.sigma[v]}])

\* graph.rs:148-158: the stack from position i down.  acc holds delta, the
\* centrality map and the divisors met.
RECURSIVE Accumulate(_, _, _, _)
Accumulate(st, s, i, acc) ==
    IF i = 0 THEN acc
    ELSE LET v == st.stack[i]
             coeff == FDivCount(FAdd(One, GetOrZero(acc.delta, v)), st.sigma[v])
             delta == AddContributions(st.pred[v], 1, st.sigma, coeff, acc.delta)
             cent == IF v # s
                     THEN Insert(acc.centrality, v,
                                 FAdd(GetOrZero(acc.centrality, v), GetOrZero(delta, v)))
                     ELSE acc.centrality
         IN  Accumulate(st, s, i - 1,
                        [delta |-> delta, centrality |-> cent,
                         divisors |-> acc.divisors \cup {st.sigma[v]}])

\* centrality.values().cloned().fold(0.0, f64::max)
RECURSIVE MaxValue(_, _)
MaxValue(m, best) ==
    IF DOMAIN m = {} THEN best
    ELSE LET n == CHOOSE x \in DOMAIN m : TRUE
             rest == [x \in DOMAIN m \ {n} |-> m[x]]
         IN  MaxValue(rest, IF FLess(best, m[n]) THEN m[n] ELSE best)

\* Mutant of NormalizedScores: the scores are returned as accumulated.
NormalizedScoresRaw(m) == m

\* graph.rs:162-167: every score divided by the maximum, when that is > 0.
NormalizedScores(m) ==
    LET max_val == MaxValue(m, Zero)
    IN  IF FLess(Zero, max_val)
        THEN [n \in DOMAIN m |-> FDiv(m[n], max_val)]
        ELSE m

\* Mutant of BWBuild: every node of S starts with an entry of 0.0.
BWBuildZeroEntries ==
    /\ bpc = "build"
    /\ bgraph' = BetweennessGraph(bedges)
    /\ bleft' = bnodes
    /\ centrality' = [v \in bnodes |-> Zero]
    /\ bpc' = "loop"
    /\ UNCHANGED <<bedges, bnodes, bstack, bsigma, bdivisors>>
    /\ UNCHANGED <<kmVars, fcVars, dgVars, clVars, nfVars>>

\* graph.rs:107-113
BWBuild ==
    /\ bpc = "build"
    /\ bgraph' = BetweennessGraph(bedges)
    /\ bleft' = bnodes
    /\ centrality' = EmptyMap
    /\ bpc' = "loop"
    /\ UNCHANGED <<bedges, bnodes, bstack, bsigma, bdivisors>>
    /\ UNCHANGED <<kmVars, fcVars, dgVars, clVars, nfVars>>

\* graph.rs:114-159: one round of the loop over nodes, the sources in whatever
\* order the hash set enumerates them.
BWSource ==
    /\ bpc = "loop"
    /\ \E s \in bleft :
          LET st == BrandesBfs(bgraph, BrandesStart(bgraph, s))
              acc == Accumulate(st, s, Len(st.stack),
                                [delta |-> EmptyMap, centrality |-> centrality,
                                 divisors |-> {}])
          IN  IF st.ok
              THEN /\ centrality' = acc.centrality
                   /\ bdivisors' = bdivisors \cup acc.divisors
                   /\ bstack' = st.stack
                   /\ bsigma' = st.sigma
                   /\ bleft' = bleft \ {s}
                   /\ bpc' = "loop"
              ELSE /\ bpc' = "panic"
                   /\ UNCHANGED <<centrality, bdivisors, bstack, bsigma, bleft>>
    /\ UNCHANGED <<bedges, bnodes, bgraph>>
    /\ UNCHANGED <<kmVars, fcVars, dgVars, clVars, nfVars>>

\* graph.rs:161-169: the sources are exhausted; the scores are normalised and
\* returned.
BWNormalize ==
    /\ bpc = "loop"
    /\ bleft = {}
    /\ centrality' = NormalizedScores(centrality)
    /\ bpc' = "done"
    /\ UNCHANGED <<bedges, bnodes, bgraph, bleft, bstack, bsigma, bdivisors>>
    /\ UNCHANGED <<kmVars, fcVars, dgVars, clVars, nfVars>>

BPairs == (1..BMaxNode) \X (1..BMaxNode)

InitBetweenness ==
    /\ \/ /\ bedges \in SeqsUpTo(BPairs, BMaxEdges)
          /\ bnodes \in SUBSET (1..BMaxNode)
       \/ \E n \in 3..BMaxChain :
             /\ bedges \in {ChainEdges(n), RingEdges(n)}
             /\ bnodes \in SUBSET (1..n)
    /\ bgraph = EmptyMap /\ bleft = {} /\ centrality = EmptyMap
    /\ bstack = <<>> /\ bsigma = EmptyMap /\ bdivisors = {} /\ bpc = "build"
    /\ KMIdle /\ FCIdle /\ DGIdle /\ CLIdle /\ NFIdle

NextBetweenness ==
    \/ BWBuild
    \/ BWSource
    \/ BWNormalize

SpecBetweenness == InitBetweenness /\ [][NextBetweenness]_vars

----------------------------------------------------------------------------
(* Properties of compute_betweenness *)

\* The nodes of S that occur in no pair of the edge list.
IsolatedSources == bnodes \ NodesOf(bedges)

\* C11: when S holds a node that occurs in no input pair, compute_betweenness
\* completes without a fault, and when all nodes of S are isolated every
\* score it reports is 0.0.
C11_BetweennessTotalOnIsolatedSources ==
    (bpc # "idle" /\ IsolatedSources # {}) =>
        /\ bpc # "panic"
        /\ (bpc = "done" /\ IsolatedSources = bnodes) =>
              \A v \in DOMAIN centrality : centrality[v] = Zero

\* The scores lie in [0, 1].
ScoresInUnitInterval(m) ==
    \A v \in DOMAIN m :
        IsFinite(m[v]) /\ ~FLess(m[v], Zero) /\ ~FLess(One, m[v])

\* C12: for S a subset of the graph's nodes, the normalisation step returns
\* scores in [0, 1]; when some accumulated score is > 0 the largest returned
\* score is exactly 1.0, and when none is, every returned score is 0.
C12_NormalisedScoresInUnitInterval ==
    [][(bpc = "loop" /\ bpc' = "done" /\ IsolatedSources = {}) =>
          /\ DOMAIN centrality' = DOMAIN centrality
          /\ ScoresInUnitInterval(centrality')
          /\ (\E v \in DOMAIN centrality : FLess(Zero, centrality[v])) =>
                \E v \in DOMAIN centrality' : centrality'[v] = One
          /\ (\A v \in DOMAIN centrality : ~FLess(Zero, centrality[v])) =>
                \A v \in DOMAIN centrality' : centrality'[v] = Zero]_vars

C12_Witness ==
    /\ bpc = "done" /\ IsolatedSources = {}
    /\ \E v \in DOMAIN centrality : centrality[v] = One
    /\ \E v \in DOMAIN centrality : FLess(Zero, centrality[v]) /\ FLess(centrality[v], One)
    /\ \E v \in DOMAIN centrality : centrality[v] = Zero

\* C19: at the end of the BFS of a source that is a node of the graph, every
\* node pushed on the stack has sigma >= 1, and no dependency coefficient is
\* divided by a zero sigma; repeated pairs and pairs (n, n) included.
C19_VisitedSigmaPositive ==
    /\ \A i \in 1..Len(bstack) : bsigma[bstack[i]] >= 1
    /\ 0 \notin bdivisors

C19_Witness ==
    /\ bpc = "loop" /\ Len(bstack) >= 2
    /\ \E i \in 1..Len(bstack) : bsigma[bstack[i]] = 2
    /\ \E i, j \in 1..Len(bedges) : i # j /\ bedges[i] = bedges[j]

\* No pair (n, n) and no pair repeated, in either direction.
IsSimple(edges) ==
    /\ \A i \in 1..Len(edges) : edges[i][1] # edges[i][2]
    /\ \A i, j \in 1..Len(edges) :
          i # j => /\ edges[i] # edges[j]
                   /\ edges[i] # <<edges[j][2], edges[j][1]>>

\* The sum of f over the set T, f a map to counts.
RECURSIVE SumOver(_, _)
SumOver(f, T) ==
    IF T = {} THEN 0
    ELSE LET t == CHOOSE x \in T : TRUE IN f[t] + SumOver(f, T \ {t})

\* The number of shortest paths from s to a node t reachable from s, in a
\* simple graph: one for t = s, else the paths to the neighbours of t that are
\* one hop nearer to s.
RECURSIVE PathCount(_, _, _)
PathCount(edges, s, t) ==
    IF s = t THEN 1
    ELSE LET before == {u \in ComponentOf(edges, s) :
                           /\ Adjacent(edges, u, t)
                           /\ HopDistance(edges, s, u) + 1 = HopDistance(edges, s, t)}
         IN  SumOver([u \in before |-> PathCount(edges, s, u)], before)

\* The number of shortest s-t paths that pass through v (s, t, v in one component).
PathCountThrough(edges, s, t, v) ==
    IF HopDistance(edges, s, v) + HopDistance(edges, v, t) = HopDistance(edges, s, t)
    THEN PathCount(edges, s, v) * PathCount(edges, v, t)
    ELSE 0

\* The sum of the fractions of a map over the set T.
RECURSIVE FSumOver(_, _)
FSumOver(f, T) ==
    IF T = {} THEN Zero
    ELSE LET t == CHOOSE x \in T : TRUE IN FAdd(f[t], FSumOver(f, T \ {t}))

\* The reference score of v for the sources in sources: the sum over the
\* sources s # v and the targets t reachable from s, t # s, t # v, of the share
\* of the shortest s-t paths that pass through v.
ReferenceBetweenness(edges, sources, v) ==
    LET pairs == {st \in sources \X NodesOf(edges) :
                     /\ st[1] # v /\ st[2] # v /\ st[1] # st[2]
                     /\ st[2] \in ComponentOf(edges, st[1])
                     /\ v \in ComponentOf(edges, st[1])}
    IN  FSumOver([st \in pairs |->
                     Fraction(PathCountThrough(edges, st[1], st[2], v),
                              PathCount(edges, st[1], st[2]))], pairs)

\* The largest reference score of a node.
RECURSIVE MaxReference(_, _, _, _)
MaxReference(edges, sources, T, best) ==
    IF T = {} THEN best
    ELSE LET t == CHOOSE x \in T : TRUE
             r == ReferenceBetweenness(edges, sources, t)
         IN  MaxReference(edges, sources, T \ {t}, IF FLess(best, r) THEN r ELSE best)

\* C13 as stated: on a simple edge list with S a subset of the graph's nodes,
\* every returned score is the reference sum over S divided by the largest
\* reference sum of a node, whatever that largest sum is (0.0 / 0.0 is not a
\* finite value).
C13_ReturnedIsShareOverMaximum ==
    (IsSimple(bedges) /\ IsolatedSources = {} /\ bpc = "done") =>
        LET mx == MaxReference(bedges, bnodes, NodesOf(bedges), Zero)
        IN  \A v \in DOMAIN centrality :
                centrality[v] = FDiv(ReferenceBetweenness(bedges, bnodes, v), mx)

\* C13: on a simple edge list with S a subset of the graph's nodes, the score
\* accumulated for a node before the final division is the reference sum over
\* the sources processed so far (a node without an entry has reference sum
\* 0), and the returned score is the reference sum over S divided by the
\* largest reference sum of a node (left at 0 when that is 0).
C13_BetweennessIsShortestPathShare ==
    (IsSimple(bedges) /\ IsolatedSources = {}) =>
        /\ bpc # "panic"
        /\ bpc = "loop" =>
              \A v \in NodesOf(bedges) :
                  GetOrZero(centrality, v) =
                      ReferenceBetweenness(bedges, bnodes \ bleft, v)
        /\ bpc = "done" =>
              LET mx == MaxReference(bedges, bnodes, NodesOf(bedges), Zero)
              IN  \A v \in DOMAIN centrality :
                      centrality[v] =
                          IF FLess(Zero, mx)
                          THEN FDiv(ReferenceBetweenness(bedges, bnodes, v), mx)
                          ELSE Zero

C13_Witness ==
    /\ bpc = "done" /\ IsSimple(bedges) /\ IsolatedSources = {}
    /\ Len(bedges) = 3 /\ bnodes = {1, 3, 4}
    /\ centrality[2] = One /\ centrality[3] = <<3, 4>> /\ centrality[1] = Zero

\* A simple path: a simple connected edge list over one node more than it has
\* pairs, no node in more than two pairs.
IsChain(edges) ==
    /\ IsSimple(edges)
    /\ Len(edges) >= 1
    /\ Cardinality(NodesOf(edges)) = Len(edges) + 1
    /\ \A u \in NodesOf(edges) :
          /\ ComponentOf(edges, u) = NodesOf(edges)
          /\ IncidentPairs(edges, u) <= 2

\* The two end nodes of a chain, and its interior (bridge) nodes.
ChainEnds(edges) == {u \in NodesOf(edges) : IncidentPairs(edges, u) = 1}
ChainInterior(edges) == NodesOf(edges) \ ChainEnds(edges)

\* C15: on a chain of n >= 3 nodes with S all of its nodes, compute_betweenness
\* returns a score for each of the n nodes, and the score of every interior
\* node is strictly greater than the score of either end node.
C15_ChainInteriorAboveEnds ==
    (bpc = "done" /\ IsChain(bedges) /\ Len(bedges) >= 2
        /\ bnodes = NodesOf(bedges)) =>
        /\ DOMAIN centrality = NodesOf(bedges)
        /\ \A v \in ChainInterior(bedges) : \A e \in ChainEnds(bedges) :
              FLess(centrality[e], centrality[v])

C15_Witness ==
    /\ bpc = "done" /\ bedges = ChainEdges(4) /\ bnodes = 1..4
    /\ DOMAIN centrality = 1..4
    /\ FLess(centrality[1], centrality[2])
    /\ FLess(centrality[4], centrality[3])

\* The nodes that some source of the set sources, other than themselves,
\* reaches by a path of pairs of the list.
ReachedFromOther(edges, sources) ==
    {v \in NodesOf(edges) :
        \E s \in sources : s # v /\ v \in ComponentOf(edges, s)}

\* C21: for S a subset of the graph's nodes, the keys of the map of
\* compute_betweenness are, after every round and in the returned map, exactly
\* the nodes reached from a source processed so far that is another node: a
\* node outside S can have an entry, and a node of S that no other source
\* reaches has none.
C21_KeysAreNodesReachedFromOtherSource ==
    (IsolatedSources = {} /\ bpc \in {"loop", "done"}) =>
        DOMAIN centrality = ReachedFromOther(bedges, bnodes \ bleft)

C21_Witness ==
    /\ bpc = "done" /\ IsolatedSources = {}
    /\ Cardinality(bnodes) = 1
    /\ bnodes \cap DOMAIN centrality = {}
    /\ Cardinality(DOMAIN centrality \ bnodes) >= 2

----------------------------------------------------------------------------
(* normalize_features, cluster.rs:121-138 *)

\* Bound of the normalize_features inputs: maps over the nodes 1..n, n up to
\* NMaxNodes.
NMaxNodes == 2

\* A triple of whole-valued reals as a triple of fractions.
AsFeatures(t) == <<Fraction(t[1], 1), Fraction(t[2], 1), Fraction(t[3], 1)>>

\* The feature vectors the inputs are drawn from: the two of
\* tests::test_normalize_features, and vectors with zero and negative entries.
NFeatureValues ==
    {AsFeatures(t) : t \in {<<2, 4, 8>>, <<1, 2, 6>>, <<0, -1, 0>>,
                            <<-2, 0, -3>>, <<0, 0, 0>>}}

\* cluster.rs:164-166 and cluster.rs:170-171: the map of the test and the map
\* it expects.
TestNormalizeInput == (1 :> AsFeatures(<<2, 4, 8>>)) @@ (2 :> AsFeatures(<<1, 2, 6>>))
TestNormalizeOutput ==
    (1 :> <<One, One, One>>) @@ (2 :> <<Fraction(1, 2), Fraction(1, 2), Fraction(3, 4)>>)

\* cluster.rs:128-130: if *d > max_d { max_d = *d; }, per dimension.
RaiseMax(mx, val) == [i \in 1..3 |-> IF FLess(mx[i], val[i]) THEN val[i] ELSE mx[i]]

\* Mutant of ScaleBy: every dimension is divided by the maximum of the first.
ScaleByFirstMax(val, mx) ==
    [i \in 1..3 |-> IF FLess(Zero, mx[1]) THEN FDiv(val[i], mx[1]) ELSE val[i]]

\* cluster.rs:134-136: if max_d > 0.0 { val.0 /= max_d; }, per dimension.
ScaleBy(val, mx) ==
    [i \in 1..3 |-> IF FLess(Zero, mx[i]) THEN FDiv(val[i], mx[i]) ELSE val[i]]

\* cluster.rs:127-131: one round of the first loop, the entries in whatever
\* order the hash map enumerates them.
NFScan ==
    /\ npc = "scan"
    /\ \E n \in nscan :
          /\ nmax' = RaiseMax(nmax, nfeatures[n])
          /\ nscan' = nscan \ {n}
    /\ UNCHANGED <<ninput, nfeatures, nscale, npc>>
    /\ UNCHANGED <<kmVars, fcVars, dgVars, clVars, bwVars>>

\* cluster.rs:131-133: the first loop is exhausted and the second begins.
NFScanDone ==
    /\ npc = "scan"
    /\ nscan = {}
    /\ nscale' = DOMAIN nfeatures
    /\ npc' = "scale"
    /\ UNCHANGED <<ninput, nfeatures, nscan, nmax>>
    /\ UNCHANGED <<kmVars, fcVars, dgVars, clVars, bwVars>>

\* cluster.rs:133-137: one round of the second loop.
NFScale ==
    /\ npc = "scale"
    /\ \E n \in nscale :
          /\ nfeatures' = [nfeatures EXCEPT ![n] = ScaleBy(@, nmax)]
          /\ nscale' = nscale \ {n}
    /\ UNCHANGED <<ninput, nscan, nmax, npc>>
    /\ UNCHANGED <<kmVars, fcVars, dgVars, clVars, bwVars>>

\* cluster.rs:137-138
NFReturn ==
    /\ npc = "scale"
    /\ nscale = {}
    /\ npc' = "done"
    /\ UNCHANGED <<ninput, nfeatures, nscan, nmax, nscale>>
    /\ UNCHANGED <<kmVars, fcVars, dgVars, clVars, bwVars>>

\* cluster.rs:121-124: the call, with its three maxima at 0.0.
InitNormalize ==
    /\ \E n \in 0..NMaxNodes : ninput \in [1..n -> NFeatureValues]
    /\ nfeatures = ninput
    /\ nscan = DOMAIN ninput
    /\ nmax = <<Zero, Zero, Zero>>
    /\ nscale = {}
    /\ npc = "scan"
    /\ KMIdle /\ FCIdle /\ DGIdle /\ CLIdle /\ BWIdle

NextNormalize ==
    \/ NFScan
    \/ NFScanDone
    \/ NFScale
    \/ NFReturn

SpecNormalize == InitNormalize /\ [][NextNormalize]_vars

----------------------------------------------------------------------------
(* Properties of normalize_features *)

\* The largest value of dimension i in a non-empty feature map.
DimMax(m, i) ==
    CHOOSE x \in {m[n][i] : n \in DOMAIN m} :
        \A n \in DOMAIN m : ~FLess(x, m[n][i])

\* C14: normalize_features keeps the key set; in a dimension with a strictly
\* positive maximum every value becomes its input value divided by that
\* maximum and the largest value afterwards is exactly 1; in a dimension whose
\* maximum is <= 0 every value is unchanged; the map of the test becomes the
\* map the test expects.
C14_NormalizePerDimension ==
    npc = "done" =>
        /\ DOMAIN nfeatures = DOMAIN ninput
        /\ \A i \in 1..3 :
              IF \E n \in DOMAIN ninput : FLess(Zero, ninput[n][i])
              THEN /\ \A n \in DOMAIN ninput :
                         nfeatures[n][i] = FDiv(ninput[n][i], DimMax(ninput, i))
                   /\ DimMax(nfeatures, i) = One
              ELSE \A n \in DOMAIN ninput : nfeatures[n][i] = ninput[n][i]
        /\ ninput = TestNormalizeInput => nfeatures = TestNormalizeOutput

C14_Witness ==
    /\ npc = "done"
    /\ ninput = TestNormalizeInput
    /\ nfeatures = TestNormalizeOutput

============================================================================
